---- MODULE Spec2Model ----
(***************************************************************************)
(* KindleWood: the windowed PDF reader (PDFReader in App.jsx).             *)
(*                                                                         *)
(* Ratios are intersection ratios in percent (0.6 is 60), zoom scales are  *)
(* in hundredths (1.2 is 120), time is counted in clock ticks of which     *)
(* TimerTicks make up the 100 ms delay of the commit timer.                *)
(***************************************************************************)
EXTENDS Integers, Sequences, FiniteSets, TLC

\* ------------------------------------------------------------------ bounds
\* Largest document (pages) opened in the navigation specification.
MaxPages == 6
\* Largest document opened in the bookmark specification.
MaxBookmarkPages == 2
\* Largest document opened in the resolver specification.
MaxResolverPages == 3
\* Clock ticks that make up the commit timer's delay.
TimerTicks == 2
\* Books in the library, and favorite updates that can be awaited at once.
MaxBooks == 2
MaxFavReqs == 2
MaxBmReqs == 2
\* Largest number of note rows the store holds.
MaxNotes == 1
\* Timer handles the runtime can hand out at the same time.
MaxTimers == 2
\* Largest page count and buffer radius tried on computeWindow.
MaxWindowPages == 7
MaxRadius == 3

\* --------------------------------------------------------- program constants
PDF_RENDER_BUFFER == 2
\* bestRatio > 0.6
CommitThreshold == 60
MinScale == 50
MaxScale == 300
ZoomStep == 20
NarrowScale == 60
WideScale == 120
\* useState({ width: 612, height: 792 })
FallbackWidth == 612
FallbackHeight == 792
\* Math.max(0, Math.min(95, ...)) of a dragged note
MinPct == 0
MaxPct == 95
\* x_pct: 5, y_pct: 5 of a new note
NoteDefaultPct == 5
\* Page size (at scale 1) of the documents opened.
DocWidth == 600
DocHeight == 900

\* Intersection ratios the viewport reports (percent).
Ratios == {0, 50, 60, 70, 100}
\* Ratios used in two-entry batches.
PairRatios == {50, 70}
\* Ratios the viewport reports in the navigation specification.
NavRatios == {0, 100}

Max(a, b) == IF a >= b THEN a ELSE b
Min(a, b) == IF a <= b THEN a ELSE b

VARIABLES
    docPages,       \* pdf.numPages of the document behind book.pdfUrl
    mounted,        \* the PDFReader component is mounted
    numPages,       \* useState(null); 0 stands for null
    loadError,      \* useState(false)
    currentPage,    \* useState(1)
    renderedPages,  \* the memoised render window
    observed,       \* page slots the IntersectionObserver observes
    ratioMapRef,    \* ratioMapRef.current: page -> last reported ratio
    ioThrottleRef,  \* ioThrottleRef.current: a timer handle, 0 stands for null
    timers,         \* timeouts the runtime holds: [id, left]
    sinceCommit,    \* trace: ticks since the last commit decision (capped)
    lastOp,         \* trace: the handler that ran last
    scale,          \* useState(innerWidth < 640 ? 0.6 : 1.2), in hundredths
    pdfDark,        \* useState(false)
    bookmarks,      \* bookmarks[openBook.id] of App
    bmLoaded,       \* the bookmark load response has been applied
    bmCalls,        \* store calls issued by the last updateBookmarks
    bmBefore,       \* trace: oldPages of the last updateBookmarks
    cwIn,           \* arguments handed to computeWindow
    cwOut,          \* its result
    cwCalled,       \* computeWindow has returned
    docDims,        \* page size of the document at scale 1: [width, height]
    baseDims,       \* useState({ width: 612, height: 792 })
    geom,           \* where onDocumentLoadSuccess stands in its geometry query
    notes,          \* useState([]): the local note list
    noteUi,         \* state of each mounted StickyNote: editing, draft, didDrag
    noteCalls,      \* note store calls issued by the last handler
    noteReqs,       \* insert requests of addNote that are still awaited
    dbNotes,        \* rows of the notes table for this book
    notesLoad,      \* the notes load request: its stage and the rows it carries
    pointer,        \* where the mouse is: [x, y]
    button,         \* the mouse button held down, -1 when none
    downOn,         \* id of the note card that got the mousedown, 0 when none
    listeners,      \* mousemove/mouseup listener pairs on window
    moved,          \* a mousemove has fired since the last mousedown
    scrollTarget,   \* slot the last scrollIntoView scrolls to, 0 when none
    lastBatch,      \* trace: the entries of the last observer callback
    unscanned,      \* trace: a batch has arrived that no commit has scanned yet
    targetSeen,     \* trace: the observer has reported scrollTarget since the scroll
    dbBookmarks,    \* page_number rows of the bookmarks table for this book
    bmInFlight,     \* bookmark inserts and deletes the store has not run yet
    bmLoad,         \* the bookmark load request: its stage and the rows it carries
    favLocal,       \* books[i].favorite of App
    favRemote,      \* favorite column of the books table
    favReqs         \* favorite updates that are still awaited

readerVars == <<docPages, mounted, numPages, loadError, currentPage, renderedPages,
                observed, ratioMapRef, ioThrottleRef, timers, sinceCommit>>
viewVars == <<scale, pdfDark>>
bmVars == <<bookmarks, bmLoaded, bmCalls, bmBefore>>
cwVars == <<cwIn, cwOut, cwCalled>>
geomVars == <<docDims, baseDims, geom>>
noteVars == <<notes, noteUi, noteCalls, noteReqs, dbNotes, notesLoad>>
dragVars == <<pointer, button, downOn, listeners, moved>>
scrollVars == <<scrollTarget>>
traceVars == <<lastBatch, unscanned, targetSeen>>
bmStoreVars == <<dbBookmarks, bmInFlight, bmLoad>>
favVars == <<favLocal, favRemote, favReqs>>
vars == <<readerVars, lastOp, viewVars, bmVars, cwVars, geomVars, noteVars, dragVars,
          scrollVars, traceVars, bmStoreVars, favVars>>

\* ------------------------------------------------------- render window
\* A window computed without clamping to the document's boundaries.
ComputeWindowUnclamped(page, count, radius) ==
    IF count = 0 THEN {}
    ELSE {i \in (page - radius)..(page + radius) : TRUE}

\* renderedPages: start = max(1, currentPage - buffer), end = min(numPages,
\* currentPage + buffer), every page from start to end.
ComputeWindow(page, count, radius) ==
    IF count = 0 THEN {}
    ELSE LET start == Max(1, page - radius)
             end == Min(count, page + radius)
         IN  {i \in start..end : TRUE}

\* A window that stays where it was when the document loaded.
RenderedPagesStale(page, count) == ComputeWindow(1, count, PDF_RENDER_BUFFER)

RenderedPages(page, count) == ComputeWindow(page, count, PDF_RENDER_BUFFER)

\* ------------------------------------------------------- resolver helpers
\* A merge that files each ratio under the slot's zero-based index.
RECURSIVE MergeEntriesZeroBased(_, _)
MergeEntriesZeroBased(map, entries) ==
    IF entries = <<>> THEN map
    ELSE LET e == Head(entries)
             keys == DOMAIN map \cup {e.page - 1}
         IN  MergeEntriesZeroBased(
                 [p \in keys |-> IF p = e.page - 1 THEN e.ratio ELSE map[p]],
                 Tail(entries))

\* entries.forEach(entry => ratioMapRef.current[page] = ratio), in order.
\* The merge of the naive observer: only the entries of this batch survive.
RECURSIVE MergeEntriesChangedOnly(_, _)
MergeEntriesChangedOnly(map, entries) ==
    IF entries = <<>> THEN << >>
    ELSE LET e == entries[Len(entries)]
             rest == MergeEntriesChangedOnly(map, SubSeq(entries, 1, Len(entries) - 1))
         IN  [p \in DOMAIN rest \cup {e.page} |-> IF p = e.page THEN e.ratio ELSE rest[p]]

RECURSIVE MergeEntries(_, _)
MergeEntries(map, entries) ==
    IF entries = <<>> THEN map
    ELSE LET e == Head(entries)
             keys == DOMAIN map \cup {e.page}
         IN  MergeEntries([p \in keys |-> IF p = e.page THEN e.ratio ELSE map[p]],
                          Tail(entries))

\* A scan that records the winning page but not its ratio.
RECURSIVE ScanMapKeepsRatio(_, _, _)
ScanMapKeepsRatio(map, p, best) ==
    IF \A k \in DOMAIN map : k < p THEN best
    ELSE IF p \in DOMAIN map /\ map[p] > 0
         THEN ScanMapKeepsRatio(map, p + 1, [page |-> p, ratio |-> Max(best.ratio, map[p])])
         ELSE ScanMapKeepsRatio(map, p + 1, best)

\* A scan in which a later page replaces the best one on an equal ratio.
RECURSIVE ScanMapLastWins(_, _, _)
ScanMapLastWins(map, p, best) ==
    IF \A k \in DOMAIN map : k < p THEN best
    ELSE IF p \in DOMAIN map /\ map[p] > 0 /\ map[p] >= best.ratio
         THEN ScanMapLastWins(map, p + 1, [page |-> p, ratio |-> map[p]])
         ELSE ScanMapLastWins(map, p + 1, best)

\* Object.entries(ratioMapRef.current).forEach: integer keys come in ascending
\* order; a page replaces the best one only on a strictly larger ratio.
RECURSIVE ScanMap(_, _, _)
ScanMap(map, p, best) ==
    IF \A k \in DOMAIN map : k < p THEN best
    ELSE IF p \in DOMAIN map /\ map[p] > best.ratio
         THEN ScanMap(map, p + 1, [page |-> p, ratio |-> map[p]])
         ELSE ScanMap(map, p + 1, best)

\* bestPage (0 stands for null) and bestRatio after the scan.
BestOf(map) == ScanMap(map, 0, [page |-> 0, ratio |-> 0])

\* A commit that accepts a winner at the threshold itself.
CommitPageAtThreshold(map, page) ==
    LET best == BestOf(map)
    IN  IF best.page # 0 /\ best.ratio >= CommitThreshold THEN best.page ELSE page

\* A commit that only accepts a winner that is mounted.
CommitPageMountedOnly(map, page) ==
    LET best == BestOf(map)
    IN  IF best.page # 0 /\ best.ratio > CommitThreshold /\ best.page \in renderedPages
        THEN best.page ELSE page

\* A commit that takes the slot's zero-based index for the page number.
CommitPageZeroBased(map, page) ==
    LET best == BestOf(map)
    IN  IF best.page # 0 /\ best.ratio > CommitThreshold THEN best.page - 1 ELSE page

\* The page the commit callback leaves in currentPage.
CommitPage(map, page) ==
    LET best == BestOf(map)
    IN  IF best.page # 0 /\ best.ratio > CommitThreshold THEN best.page ELSE page

TimerIds == {t.id : t \in timers}
FreeIds == (1..MaxTimers) \ TimerIds
NewTimerId == CHOOSE i \in FreeIds : \A j \in FreeIds : i <= j

Entries(pages, ratios) == [page : pages, ratio : ratios]
Batches(pages, ratios, len) ==
    IF len = 1 THEN {<<e>> : e \in Entries(pages, ratios)}
    ELSE {<<e, f>> : e \in Entries(pages, ratios), f \in Entries(pages, ratios)}

\* ------------------------------------------------------- zoom and bookmarks
\* +(x).toFixed(1): round to one decimal (x in hundredths, x >= 0).
ToFixed1(x) == ((x + 5) \div 10) * 10

Range(seq) == {seq[i] : i \in 1..Len(seq)}

\* prev.filter(p => p !== page)
Without(seq, page) == SelectSeq(seq, LAMBDA p : p # page)

\* Array.prototype.sort((a, b) => a - b)
RECURSIVE SortAsc(_)
SortAsc(seq) ==
    IF seq = <<>> THEN <<>>
    ELSE LET i == CHOOSE j \in 1..Len(seq) :
                     /\ \A k \in 1..Len(seq) : seq[j] <= seq[k]
                     /\ \A k \in 1..(j - 1) : seq[k] # seq[j]
         IN  <<seq[i]>> \o SortAsc(SubSeq(seq, 1, i - 1) \o SubSeq(seq, i + 1, Len(seq)))

\* The updater of toggleBookmark without its sort.
ToggledUnsorted(prev, page) ==
    IF page \in Range(prev) THEN Without(prev, page) ELSE Append(prev, page)

\* The updater toggleBookmark hands to onUpdateBookmarks.
Toggled(prev, page) ==
    IF page \in Range(prev) THEN Without(prev, page)
    ELSE SortAsc(Append(prev, page))

\* A call per page of the new sequence: a full re-sync.
StoreCallsResync(oldPages, newPages) ==
    [i \in 1..Len(newPages) |-> [op |-> "insert", page |-> newPages[i]]]

\* Only the inserts of the diff.
StoreCallsInsertOnly(oldPages, newPages) ==
    LET added == SelectSeq(newPages, LAMBDA p : p \notin Range(oldPages))
    IN  [i \in 1..Len(added) |-> [op |-> "insert", page |-> added[i]]]

\* updateBookmarks: added.forEach(insert), then removed.forEach(delete).
StoreCalls(oldPages, newPages) ==
    LET added == SelectSeq(newPages, LAMBDA p : p \notin Range(oldPages))
        removed == SelectSeq(oldPages, LAMBDA p : p \notin Range(newPages))
    IN  [i \in 1..Len(added) |-> [op |-> "insert", page |-> added[i]]]
        \o [i \in 1..Len(removed) |-> [op |-> "delete", page |-> removed[i]]]

\* Ascending duplicate-free page sequences: what the ordered load returns.
RECURSIVE AscendingSeqs(_)
AscendingSeqs(n) ==
    IF n = 0 THEN {<<>>}
    ELSE AscendingSeqs(n - 1) \cup {Append(s, n) : s \in AscendingSeqs(n - 1)}

\* ------------------------------------------------------------------- notes
\* The StickyNote components: one per note whose page has a slot; a new one
\* starts with useState(!note.content), useState(note.content), useRef(false).
MountNotes(list, count, ui) ==
    LET ids == {list[i].id : i \in {j \in 1..Len(list) : list[j].page \in 1..count}}
        first(id) == CHOOSE i \in 1..Len(list) :
                        /\ list[i].id = id
                        /\ \A j \in 1..(i - 1) : list[j].id # id
    IN  [id \in ids |->
            IF id \in DOMAIN ui THEN ui[id]
            ELSE [editing |-> list[first(id)].content = "",
                  draft |-> list[first(id)].content,
                  didDrag |-> FALSE]]

\* Ids of the books of the library.
Books == 1..MaxBooks

\* Ids of the rows of the notes table, and the id the store gives the next row.
NoteIds == 1..MaxNotes

RowIds(rows) == {r.id : r \in rows}

NewNoteId(rows) == CHOOSE id \in NoteIds \ RowIds(rows) :
                      \A other \in NoteIds \ RowIds(rows) : id <= other

\* What the user types into a note.
Contents == {"", "a"}

\* r => ({ id: r.id, page: r.page, xPct: r.x_pct, yPct: r.y_pct, content: r.content })
NoteOfRow(r) ==
    [id |-> r.id, page |-> r.page, xPct |-> r.x_pct, yPct |-> r.y_pct,
     content |-> r.content]

\* data.map(...) of a select: the rows in id order.
RECURSIVE NotesOfRows(_)
NotesOfRows(rows) ==
    IF rows = {} THEN << >>
    ELSE LET r == CHOOSE x \in rows : \A y \in rows : x.id <= y.id
         IN  <<NoteOfRow(r)>> \o NotesOfRows(rows \ {r})

\* An updateNote that sends the change and leaves the local list for later.
UpdatedNotesAwaited(list, id, changes) == list

\* prev.map(n => n.id === id ? { ...n, ...changes } : n)
UpdatedNotes(list, id, changes) ==
    [i \in 1..Len(list) |->
        IF list[i].id = id
        THEN [f \in DOMAIN list[i] |->
                IF f \in DOMAIN changes THEN changes[f] ELSE list[i][f]]
        ELSE list[i]]

\* prev.filter(n => n.id !== id)
RECURSIVE NotesWithout(_, _)
NotesWithout(list, id) ==
    IF list = << >> THEN << >>
    ELSE IF Head(list).id = id THEN NotesWithout(Tail(list), id)
    ELSE <<Head(list)>> \o NotesWithout(Tail(list), id)

\* dbPayload of updateNote: camelCase back to snake_case.
DbPayload(changes) ==
    [f \in {IF k = "xPct" THEN "x_pct" ELSE IF k = "yPct" THEN "y_pct" ELSE k :
             k \in DOMAIN changes \cap {"xPct", "yPct", "content"}} |->
        IF f = "x_pct" THEN changes["xPct"]
        ELSE IF f = "y_pct" THEN changes["yPct"]
        ELSE changes[f]]

\* Math.round(a * scale) with the scale in hundredths.
RoundScaled(a) == (a * scale + 50) \div 100

\* getBoundingClientRect() of a page slot: the rendered page, or the
\* placeholder of placeholderW x placeholderH.
PageRect(page) ==
    IF page \in renderedPages
    THEN [width |-> (docDims.width * scale) \div 100,
          height |-> (docDims.height * scale) \div 100]
    ELSE [width |-> RoundScaled(baseDims.width),
          height |-> RoundScaled(baseDims.height)]

\* pageFilter: the inversion in dark mode, 'none' otherwise.
PageFilter ==
    IF pdfDark THEN "invert(1) hue-rotate(180deg) brightness(0.88) contrast(1.05)"
    ELSE "none"

\* A slot whose placeholder keeps the unscaled page size.
SlotUnscaled(pageNum) ==
    LET isRendered == pageNum \in renderedPages
    IN  [page |-> isRendered,
         width |-> IF isRendered THEN 0 ELSE baseDims.width,
         height |-> IF isRendered THEN 0 ELSE baseDims.height,
         filter |-> IF isRendered THEN PageFilter ELSE "none"]

\* The slot of a page as the render function builds it: <Page> mounted or
\* not, the style's width and height (0 stands for undefined) and filter.
Slot(pageNum) ==
    LET isRendered == pageNum \in renderedPages
    IN  [page |-> isRendered,
         width |-> IF isRendered THEN 0 ELSE RoundScaled(baseDims.width),
         height |-> IF isRendered THEN 0 ELSE RoundScaled(baseDims.height),
         filter |-> IF isRendered THEN PageFilter ELSE "none"]

\* left: `${note.xPct}%`, top: `${note.yPct}%` inside the page slot, in pixels.
NotePixel(note) ==
    [x |-> (note.xPct * PageRect(note.page).width) \div 100,
     y |-> (note.yPct * PageRect(note.page).height) \div 100]

\* The note a StickyNote with this key shows.
NoteWithId(list, id) ==
    list[CHOOSE i \in 1..Len(list) :
            /\ list[i].id = id
            /\ \A j \in 1..(i - 1) : list[j].id # id]

\* A clamp that lets the anchor reach the far edge of the page.
ClampPctToEdge(p) == Max(MinPct, Min(100, p))

\* Math.max(0, Math.min(95, p))
ClampPct(p) == Max(MinPct, Min(MaxPct, p))

\* ((ev.clientX - startMouseX) / rect.width) * 100; exact for the pointer
\* positions of PointerAt.
DeltaPct(now, start, dim) == ((now - start) * 100) \div dim

\* The changes onMouseMove of one listener hands to onUpdate.
DragChanges(l, at) ==
    [xPct |-> ClampPct(l.startXPct + DeltaPct(at.x, l.startMouseX, PageRect(l.page).width)),
     yPct |-> ClampPct(l.startYPct + DeltaPct(at.y, l.startMouseY, PageRect(l.page).height))]

\* All mousemove listeners run, one after the other.
RECURSIVE DraggedNotes(_, _, _)
DraggedNotes(list, ls, at) ==
    IF ls = {} THEN list
    ELSE LET l == CHOOSE x \in ls : TRUE
         IN  DraggedNotes(UpdatedNotes(list, l.id, DragChanges(l, at)), ls \ {l}, at)

RECURSIVE DragCalls(_, _)
DragCalls(ls, at) ==
    IF ls = {} THEN << >>
    ELSE LET l == CHOOSE x \in ls : TRUE
         IN  <<[op |-> "updateNote", id |-> l.id,
                payload |-> DbPayload(DragChanges(l, at))]>> \o DragCalls(ls \ {l}, at)

\* Mouse buttons, pointer positions and stored notes of the drag scenarios.
Buttons == {0, 2}

PointerAt == {[x |-> 0, y |-> 0], [x |-> 360, y |-> 270]}

DragRows ==
    {[id |-> 1, page |-> 1, x_pct |-> NoteDefaultPct, y_pct |-> NoteDefaultPct,
      content |-> "a"],
     [id |-> 2, page |-> 1, x_pct |-> 10, y_pct |-> 20, content |-> ""]}

\* ------------------------------------------------------------- initial state
\* The fixed fallback page size and the state of the notes and the mouse
\* when the reader opens; the notes load is on its way.
InitNotes ==
    /\ docDims = [width |-> DocWidth, height |-> DocHeight]
    /\ baseDims = [width |-> FallbackWidth, height |-> FallbackHeight]
    /\ geom = "idle"
    /\ notes = << >>
    /\ noteUi = << >>
    /\ noteCalls = << >>
    /\ noteReqs = {}
    /\ notesLoad = [stage |-> "sent", rows |-> << >>]
    /\ pointer = [x |-> 0, y |-> 0]
    /\ button = -1
    /\ downOn = 0
    /\ listeners = {}
    /\ moved = FALSE

\* The scroll container, the bookmark store with the load on its way, and
\* the favorite flags of the library, equal to the stored ones.
InitStores ==
    /\ scrollTarget = 0
    /\ lastBatch = << >>
    /\ unscanned = FALSE
    /\ targetSeen = FALSE
    /\ dbBookmarks = {}
    /\ bmInFlight = {}
    /\ bmLoad = [stage |-> "sent", rows |-> << >>]
    /\ favLocal = [b \in Books |-> FALSE]
    /\ favRemote = [b \in Books |-> FALSE]
    /\ favReqs = {}

InitReader ==
    /\ mounted = TRUE
    /\ numPages = 0
    /\ loadError = FALSE
    /\ currentPage = 1
    /\ renderedPages = {}
    /\ observed = {}
    /\ ratioMapRef = << >>
    /\ ioThrottleRef = 0
    /\ timers = {}
    /\ sinceCommit = TimerTicks
    /\ lastOp = "open"
    /\ pdfDark = FALSE
    /\ bookmarks = << >>
    /\ bmLoaded = FALSE
    /\ bmCalls = << >>
    /\ bmBefore = << >>
    /\ cwIn = [page |-> 1, count |-> 1, radius |-> 0]
    /\ cwOut = {}
    /\ cwCalled = FALSE
    /\ InitNotes
    /\ InitStores

Init ==
    /\ InitReader
    /\ dbNotes = {}
    /\ docPages \in 1..MaxResolverPages
    /\ scale = WideScale

InitNav ==
    /\ InitReader
    /\ dbNotes = {}
    /\ docPages \in 1..MaxPages
    /\ scale = WideScale

InitView ==
    /\ InitReader
    /\ dbNotes \in {{}, DragRows}
    /\ docPages \in 1..MaxResolverPages
    /\ scale \in {NarrowScale, WideScale}

InitBookmarks ==
    /\ InitReader
    /\ dbNotes = {}
    /\ docPages \in 1..MaxBookmarkPages
    /\ scale = WideScale

InitWindow ==
    /\ mounted = TRUE
    /\ numPages = 0
    /\ loadError = FALSE
    /\ currentPage = 1
    /\ renderedPages = {}
    /\ observed = {}
    /\ ratioMapRef = << >>
    /\ ioThrottleRef = 0
    /\ timers = {}
    /\ sinceCommit = TimerTicks
    /\ lastOp = "open"
    /\ pdfDark = FALSE
    /\ bookmarks = << >>
    /\ bmLoaded = FALSE
    /\ bmCalls = << >>
    /\ bmBefore = << >>
    /\ docPages = 1
    /\ scale = WideScale
    /\ cwIn \in {a \in [page : 1..MaxWindowPages, count : 1..MaxWindowPages,
                        radius : 0..MaxRadius] : a.page <= a.count}
    /\ cwOut = {}
    /\ cwCalled = FALSE
    /\ InitNotes
    /\ InitStores
    /\ dbNotes = {}

\* ------------------------------------------------------------------ actions
\* A load that is tried again after an error and clears the error.
DocumentLoadSuccessRetry ==
    /\ mounted /\ numPages = 0
    /\ numPages' = docPages
    /\ currentPage' = 1
    /\ renderedPages' = RenderedPages(1, docPages)
    /\ observed' = 1..docPages
    /\ loadError' = FALSE
    /\ geom' = "pending"
    /\ noteUi' = MountNotes(notes, docPages, noteUi)
    /\ lastOp' = "load"
    /\ UNCHANGED <<docPages, mounted, ratioMapRef, ioThrottleRef, timers,
                   sinceCommit, viewVars, bmVars, cwVars, docDims, baseDims, notes,
                   noteCalls, noteReqs, dbNotes, notesLoad, dragVars,
                   scrollVars, traceVars, bmStoreVars, favVars>>

\* onDocumentLoadSuccess up to its first await, the re-render and the
\* observer effect that runs because numPages changed.
DocumentLoadSuccess ==
    /\ mounted /\ numPages = 0 /\ ~loadError
    /\ numPages' = docPages
    /\ currentPage' = 1
    /\ renderedPages' = RenderedPages(1, docPages)
    /\ observed' = 1..docPages
    /\ geom' = "pending"
    /\ noteUi' = MountNotes(notes, docPages, noteUi)
    /\ lastOp' = "load"
    /\ UNCHANGED <<docPages, mounted, loadError, ratioMapRef, ioThrottleRef, timers,
                   sinceCommit, viewVars, bmVars, cwVars, docDims, baseDims, notes,
                   noteCalls, noteReqs, dbNotes, notesLoad, dragVars,
                   scrollVars, traceVars, bmStoreVars, favVars>>

\* onDocumentLoadSuccess after its await: getPage(1) and getViewport gave the
\* page size, setBaseDims stores it.
GeometryResolved ==
    /\ mounted /\ geom = "pending"
    /\ baseDims' = docDims
    /\ geom' = "done"
    /\ lastOp' = "geometry"
    /\ UNCHANGED <<readerVars, viewVars, bmVars, cwVars, docDims, noteVars, dragVars,
                   scrollVars, traceVars, bmStoreVars, favVars>>

\* A catch that takes the failed geometry query for a failed load.
GeometryFailedAsLoadError ==
    /\ mounted /\ geom = "pending"
    /\ geom' = "failed"
    /\ loadError' = TRUE
    /\ lastOp' = "geometryFailed"
    /\ UNCHANGED <<docPages, mounted, numPages, currentPage, renderedPages, observed,
                   ratioMapRef, ioThrottleRef, timers, sinceCommit, viewVars, bmVars,
                   cwVars, docDims, baseDims, noteVars, dragVars,
                   scrollVars, traceVars, bmStoreVars, favVars>>

\* onDocumentLoadSuccess after its await: the query threw, catch { } keeps the
\* defaults.
GeometryFailed ==
    /\ mounted /\ geom = "pending"
    /\ geom' = "failed"
    /\ lastOp' = "geometryFailed"
    /\ UNCHANGED <<readerVars, viewVars, bmVars, cwVars, docDims, baseDims, noteVars,
                   dragVars,
                   scrollVars, traceVars, bmStoreVars, favVars>>

\* The notes load of the reader reaches the store: select * where book_id.
NotesLoadServed ==
    /\ notesLoad.stage = "sent"
    /\ notesLoad' = [stage |-> "served", rows |-> NotesOfRows(dbNotes)]
    /\ lastOp' = "notesLoadServed"
    /\ UNCHANGED <<readerVars, viewVars, bmVars, cwVars, geomVars, notes, noteUi,
                   noteCalls, noteReqs, dbNotes, dragVars,
                   scrollVars, traceVars, bmStoreVars, favVars>>

\* .then of the notes load: setNotes(data.map(...)).
NotesLoaded ==
    /\ mounted /\ notesLoad.stage = "served"
    /\ notes' = notesLoad.rows
    /\ noteUi' = MountNotes(notes', numPages, noteUi)
    /\ notesLoad' = [stage |-> "done", rows |-> << >>]
    /\ lastOp' = "notesLoaded"
    /\ UNCHANGED <<readerVars, viewVars, bmVars, cwVars, geomVars, noteCalls,
                   noteReqs, dbNotes, dragVars,
                   scrollVars, traceVars, bmStoreVars, favVars>>

\* .then of the notes load with an error: logged, nothing else.
NotesLoadFails ==
    /\ notesLoad.stage = "sent"
    /\ notesLoad' = [stage |-> "failed", rows |-> << >>]
    /\ lastOp' = "notesLoadFailed"
    /\ UNCHANGED <<readerVars, viewVars, bmVars, cwVars, geomVars, notes, noteUi,
                   noteCalls, noteReqs, dbNotes, dragVars,
                   scrollVars, traceVars, bmStoreVars, favVars>>

\* A new row that always goes to the first page.
NewRowFirstPage(page) ==
    [id |-> 0, page |-> 1, x_pct |-> NoteDefaultPct, y_pct |-> NoteDefaultPct,
     content |-> ""]

\* The row addNote inserts, before the store has given it an id.
NewRow(page) ==
    [id |-> 0, page |-> page, x_pct |-> NoteDefaultPct, y_pct |-> NoteDefaultPct,
     content |-> ""]

\* addNote up to its await: the insert is sent.
AddNote ==
    /\ mounted /\ numPages > 0
    /\ Cardinality(dbNotes) + Cardinality({q \in noteReqs : q.id = 0}) < MaxNotes
    /\ NewRow(currentPage) \notin noteReqs
    /\ noteReqs' = noteReqs \cup {NewRow(currentPage)}
    /\ noteCalls' = <<[op |-> "insertNote", id |-> 0, payload |-> NewRow(currentPage)]>>
    /\ lastOp' = "addNote"
    /\ UNCHANGED <<readerVars, viewVars, bmVars, cwVars, geomVars, notes, noteUi,
                   dbNotes, notesLoad, dragVars,
                   scrollVars, traceVars, bmStoreVars, favVars>>

\* The store runs the insert: the row gets its id; .select().single() will
\* answer with the row as stored.
StoreInsert(req) ==
    /\ req \in noteReqs /\ req.id = 0
    /\ LET row == [req EXCEPT !.id = NewNoteId(dbNotes)]
       IN  /\ dbNotes' = dbNotes \cup {row}
           /\ noteReqs' = (noteReqs \ {req}) \cup {row}
    /\ lastOp' = "storeInsert"
    /\ UNCHANGED <<readerVars, viewVars, bmVars, cwVars, geomVars, notes, noteUi,
                   noteCalls, notesLoad, dragVars,
                   scrollVars, traceVars, bmStoreVars, favVars>>

\* addNote after its await, no error: setNotes(prev => [...prev, note]).
AddNoteAck(row) ==
    /\ mounted
    /\ row \in noteReqs /\ row.id # 0
    /\ notes' = Append(notes, NoteOfRow(row))
    /\ noteUi' = MountNotes(notes', numPages, noteUi)
    /\ noteReqs' = noteReqs \ {row}
    /\ lastOp' = "addNoteAck"
    /\ UNCHANGED <<readerVars, viewVars, bmVars, cwVars, geomVars, noteCalls,
                   dbNotes, notesLoad, dragVars,
                   scrollVars, traceVars, bmStoreVars, favVars>>

\* addNote after its await with an error: logged, return.
AddNoteFails(req) ==
    /\ req \in noteReqs /\ req.id = 0
    /\ noteReqs' = noteReqs \ {req}
    /\ lastOp' = "addNoteFailed"
    /\ UNCHANGED <<readerVars, viewVars, bmVars, cwVars, geomVars, notes, noteUi,
                   noteCalls, dbNotes, notesLoad, dragVars,
                   scrollVars, traceVars, bmStoreVars, favVars>>

\* The textarea of a note that is being edited: setDraft(e.target.value).
TypeDraft(id, text) ==
    /\ mounted
    /\ id \in DOMAIN noteUi /\ noteUi[id].editing /\ noteUi[id].draft # text
    /\ noteUi' = [noteUi EXCEPT ![id].draft = text]
    /\ lastOp' = "typeDraft"
    /\ UNCHANGED <<readerVars, viewVars, bmVars, cwVars, geomVars, notes, noteCalls,
                   noteReqs, dbNotes, notesLoad, dragVars,
                   scrollVars, traceVars, bmStoreVars, favVars>>

\* handleSave: onUpdate({ content: draft }); setEditing(false).
SaveNote(id) ==
    /\ mounted
    /\ id \in DOMAIN noteUi /\ noteUi[id].editing
    /\ LET changes == [content |-> noteUi[id].draft]
       IN  /\ notes' = UpdatedNotes(notes, id, changes)
           /\ noteCalls' = <<[op |-> "updateNote", id |-> id,
                              payload |-> DbPayload(changes)]>>
    /\ noteUi' = [noteUi EXCEPT ![id].editing = FALSE]
    /\ lastOp' = "saveNote"
    /\ UNCHANGED <<readerVars, viewVars, bmVars, cwVars, geomVars, noteReqs,
                   dbNotes, notesLoad, dragVars,
                   scrollVars, traceVars, bmStoreVars, favVars>>

\* The delete button of the editor: deleteNote(id).
DeleteNote(id) ==
    /\ mounted
    /\ id \in DOMAIN noteUi /\ noteUi[id].editing
    /\ notes' = NotesWithout(notes, id)
    /\ noteUi' = MountNotes(notes', numPages, noteUi)
    /\ noteCalls' = <<[op |-> "deleteNote", id |-> id, payload |-> << >>]>>
    /\ lastOp' = "deleteNote"
    /\ UNCHANGED <<readerVars, viewVars, bmVars, cwVars, geomVars, noteReqs,
                   dbNotes, notesLoad, dragVars,
                   scrollVars, traceVars, bmStoreVars, favVars>>

\* A mouseup that leaves the window listeners in place.
MouseUpKeepsListeners(onCard) ==
    /\ button # -1
    /\ button' = -1
    /\ downOn' = 0
    /\ lastOp' = "mouseUp"
    /\ UNCHANGED <<readerVars, viewVars, bmVars, cwVars, geomVars, noteVars, pointer,
                   listeners, moved,
                   scrollVars, traceVars, bmStoreVars, favVars>>

\* A click that opens the editor whether or not the note was dragged.
MouseUpAlwaysEdits(onCard) ==
    /\ button # -1
    /\ button' = -1
    /\ downOn' = 0
    /\ listeners' = {}
    /\ IF onCard /\ button = 0 /\ downOn \in DOMAIN noteUi
       THEN /\ noteUi' = [noteUi EXCEPT ![downOn].editing = TRUE]
            /\ lastOp' = "click"
       ELSE /\ noteUi' = noteUi
            /\ lastOp' = "mouseUp"
    /\ UNCHANGED <<readerVars, viewVars, bmVars, cwVars, geomVars, notes, noteCalls,
                   noteReqs, dbNotes, notesLoad, pointer, moved,
                   scrollVars, traceVars, bmStoreVars, favVars>>

\* handleMouseDown: a mouse button goes down on the collapsed card of a note.
MouseDown(id, btn) ==
    /\ mounted /\ button = -1
    /\ id \in DOMAIN noteUi /\ ~noteUi[id].editing
    /\ button' = btn
    /\ downOn' = id
    /\ moved' = FALSE
    /\ IF btn # 0
       THEN UNCHANGED <<noteUi, listeners,
                   scrollVars, traceVars, bmStoreVars, favVars>>
       ELSE /\ noteUi' = [noteUi EXCEPT ![id].didDrag = FALSE]
            /\ listeners' = listeners \cup
                    {[id |-> id, page |-> NoteWithId(notes, id).page,
                      startMouseX |-> pointer.x, startMouseY |-> pointer.y,
                      startXPct |-> NoteWithId(notes, id).xPct,
                      startYPct |-> NoteWithId(notes, id).yPct]}
    /\ lastOp' = "mouseDown"
    /\ UNCHANGED <<readerVars, viewVars, bmVars, cwVars, geomVars, notes, noteCalls,
                   noteReqs, dbNotes, notesLoad, pointer,
                   scrollVars, traceVars, bmStoreVars, favVars>>

\* The primary button goes down anywhere else, the editor of a note included:
\* no handler of a note runs.
MouseDownElsewhere ==
    /\ mounted /\ button = -1
    /\ button' = 0
    /\ downOn' = 0
    /\ moved' = FALSE
    /\ lastOp' = "mouseDownElsewhere"
    /\ UNCHANGED <<readerVars, viewVars, bmVars, cwVars, geomVars, noteVars, pointer,
                   listeners,
                   scrollVars, traceVars, bmStoreVars, favVars>>

\* The mouse moves: every onMouseMove on window runs.
MouseMove(at) ==
    /\ mounted
    /\ at # pointer
    /\ pointer' = at
    /\ moved' = (button # -1)
    /\ notes' = DraggedNotes(notes, listeners, at)
    /\ noteCalls' = IF listeners = {} THEN noteCalls ELSE DragCalls(listeners, at)
    /\ noteUi' = [id \in DOMAIN noteUi |->
                    IF id \in {l.id : l \in listeners}
                    THEN [noteUi[id] EXCEPT !.didDrag = TRUE]
                    ELSE noteUi[id]]
    /\ lastOp' = "mouseMove"
    /\ UNCHANGED <<readerVars, viewVars, bmVars, cwVars, geomVars, noteReqs, dbNotes,
                   notesLoad, button, downOn, listeners,
                   scrollVars, traceVars, bmStoreVars, favVars>>

\* The button goes up: every onMouseUp on window removes its listener pair;
\* when the button is the primary one and goes up over the card it went down
\* on, the click follows and handleClick runs.
MouseUp(onCard) ==
    /\ button # -1
    /\ button' = -1
    /\ downOn' = 0
    /\ listeners' = {}
    /\ IF onCard /\ button = 0 /\ downOn \in DOMAIN noteUi
       THEN /\ noteUi' = IF noteUi[downOn].didDrag
                         THEN [noteUi EXCEPT ![downOn].didDrag = FALSE]
                         ELSE [noteUi EXCEPT ![downOn].editing = TRUE]
            /\ lastOp' = "click"
       ELSE /\ noteUi' = noteUi
            /\ lastOp' = "mouseUp"
    /\ UNCHANGED <<readerVars, viewVars, bmVars, cwVars, geomVars, notes, noteCalls,
                   noteReqs, dbNotes, notesLoad, pointer, moved,
                   scrollVars, traceVars, bmStoreVars, favVars>>

\* onLoadError={() => setLoadError(true)}
DocumentLoadError ==
    /\ mounted /\ numPages = 0 /\ ~loadError
    /\ loadError' = TRUE
    /\ lastOp' = "loadError"
    /\ UNCHANGED <<docPages, mounted, numPages, currentPage, renderedPages, observed,
                   ratioMapRef, ioThrottleRef, timers, sinceCommit, viewVars, bmVars,
                   cwVars, geomVars, noteVars, dragVars,
                   scrollVars, traceVars, bmStoreVars, favVars>>

\* An observer callback that arms a timer on every batch.
ObserverCallbackUnthrottled(entries) ==
    /\ mounted
    /\ \A i \in 1..Len(entries) : entries[i].page \in observed
    /\ ratioMapRef' = MergeEntries(ratioMapRef, entries)
    /\ FreeIds # {}
    /\ ioThrottleRef' = NewTimerId
    /\ timers' = timers \cup {[id |-> NewTimerId, left |-> TimerTicks]}
    /\ lastOp' = "batch"
    /\ UNCHANGED <<docPages, mounted, numPages, loadError, currentPage, renderedPages,
                   observed, sinceCommit, viewVars, bmVars, cwVars, geomVars, noteVars, dragVars,
                   scrollVars, bmStoreVars, favVars>>

\* The IntersectionObserver callback: merge, then arm the timer unless one
\* is pending.
ObserverCallback(entries) ==
    /\ mounted
    /\ \A i \in 1..Len(entries) : entries[i].page \in observed
    /\ ratioMapRef' = MergeEntries(ratioMapRef, entries)
    /\ IF ioThrottleRef # 0
       THEN UNCHANGED <<ioThrottleRef, timers>>
       ELSE /\ FreeIds # {}
            /\ ioThrottleRef' = NewTimerId
            /\ timers' = timers \cup {[id |-> NewTimerId, left |-> TimerTicks]}
    /\ lastOp' = "batch"
    /\ UNCHANGED <<docPages, mounted, numPages, loadError, currentPage, renderedPages,
                   observed, sinceCommit, viewVars, bmVars, cwVars, geomVars, noteVars, dragVars,
                   scrollVars, bmStoreVars, favVars>>

\* A timeout callback that forgets to clear the handle.
CommitTimerKeepsHandle(t) ==
    /\ t \in timers /\ t.left = 0
    /\ timers' = timers \ {t}
    /\ currentPage' = CommitPage(ratioMapRef, currentPage)
    /\ renderedPages' = RenderedPages(currentPage', numPages)
    /\ sinceCommit' = 0
    /\ lastOp' = "commit"
    /\ UNCHANGED <<docPages, mounted, numPages, loadError, observed, ratioMapRef,
                   ioThrottleRef, viewVars, bmVars, cwVars, geomVars, noteVars, dragVars,
                   scrollVars, bmStoreVars, favVars>>

\* The timeout's callback: clear the handle, scan the whole map, commit; the
\* re-render recomputes the memoised window.
CommitTimerFires(t) ==
    /\ t \in timers /\ t.left = 0
    /\ timers' = timers \ {t}
    /\ ioThrottleRef' = 0
    /\ currentPage' = CommitPage(ratioMapRef, currentPage)
    /\ renderedPages' = RenderedPages(currentPage', numPages)
    /\ sinceCommit' = 0
    /\ lastOp' = "commit"
    /\ UNCHANGED <<docPages, mounted, numPages, loadError, observed, ratioMapRef,
                   viewVars, bmVars, cwVars, geomVars, noteVars, dragVars,
                   scrollVars, bmStoreVars, favVars>>

\* The observer callback, with the trace of what it was handed.
ObserverCallbackTraced(entries) ==
    /\ ObserverCallback(entries)
    /\ lastBatch' = entries
    /\ unscanned' = TRUE
    /\ targetSeen' = (targetSeen \/ \E i \in 1..Len(entries) : entries[i].page = scrollTarget)

\* The timeout's callback, with the trace that the map has been scanned.
CommitTraced(t) ==
    /\ CommitTimerFires(t)
    /\ unscanned' = FALSE
    /\ UNCHANGED <<lastBatch, targetSeen>>

\* The clock advances by one tick; a timeout that is due may still run late.
Tick ==
    /\ timers' = {[id |-> t.id, left |-> Max(0, t.left - 1)] : t \in timers}
    /\ sinceCommit' = Min(TimerTicks, sinceCommit + 1)
    /\ \/ timers' # timers
       \/ sinceCommit' # sinceCommit
    /\ lastOp' = "tick"
    /\ UNCHANGED <<docPages, mounted, numPages, loadError, currentPage, renderedPages,
                   observed, ratioMapRef, ioThrottleRef, viewVars, bmVars, cwVars, geomVars, noteVars, dragVars,
                   scrollVars, traceVars, bmStoreVars, favVars>>

\* A cleanup that disconnects the observer but leaves the timeout running.
CloseReaderNoClear ==
    /\ mounted
    /\ mounted' = FALSE
    /\ observed' = {}
    /\ lastOp' = IF ioThrottleRef # 0 THEN "closeCancel" ELSE "close"
    /\ UNCHANGED <<docPages, numPages, loadError, currentPage, renderedPages,
                   ratioMapRef, ioThrottleRef, timers, sinceCommit, viewVars, bmVars,
                   cwVars, geomVars, noteVars, dragVars,
                   scrollVars, traceVars, bmStoreVars, favVars>>

\* onClose unmounts the reader; the observer effect's cleanup runs.
CloseReader ==
    /\ mounted
    /\ mounted' = FALSE
    /\ observed' = {}
    /\ timers' = IF ioThrottleRef # 0
                 THEN {t \in timers : t.id # ioThrottleRef}
                 ELSE timers
    /\ ioThrottleRef' = 0
    /\ lastOp' = IF ioThrottleRef # 0 THEN "closeCancel" ELSE "close"
    /\ UNCHANGED <<docPages, numPages, loadError, currentPage, renderedPages,
                   ratioMapRef, sinceCommit, viewVars, bmVars, cwVars, geomVars, noteVars, dragVars,
                   scrollVars, traceVars, bmStoreVars, favVars>>

\* A scrollToPage that also writes the page it scrolls to.
ScrollToPageSetsPage(n) ==
    /\ mounted
    /\ n \in observed
    /\ scrollTarget' = n
    /\ targetSeen' = FALSE
    /\ currentPage' = n
    /\ renderedPages' = RenderedPages(n, numPages)
    /\ lastOp' = "scroll"
    /\ UNCHANGED <<docPages, mounted, numPages, loadError, observed, ratioMapRef,
                   ioThrottleRef, timers, sinceCommit, viewVars, bmVars, cwVars, geomVars,
                   noteVars, dragVars, lastBatch, unscanned, bmStoreVars, favVars>>

\* scrollToPage(n): pageRefs.current[n]?.scrollIntoView(...); the container
\* starts to scroll to slot n, nothing else changes.
ScrollToPage(n) ==
    /\ mounted
    /\ n \in observed
    /\ scrollTarget' = n
    /\ targetSeen' = FALSE
    /\ lastOp' = "scroll"
    /\ UNCHANGED <<readerVars, viewVars, bmVars, cwVars, geomVars, noteVars, dragVars,
                   lastBatch, unscanned, bmStoreVars, favVars>>

\* The previous-page button, disabled on page 1.
PrevPage ==
    /\ currentPage > 1
    /\ ScrollToPage(Max(1, currentPage - 1))

\* The next-page button, disabled on the last page and before the load.
NextPage ==
    /\ numPages # 0 /\ currentPage < numPages
    /\ ScrollToPage(Min(numPages, currentPage + 1))

\* A row of the bookmark panel: scrollToPage(page).
BookmarkJump(page) ==
    /\ page \in Range(bookmarks)
    /\ ScrollToPage(page)

\* A zoom-out that forgets the lower bound.
ZoomOutUnclamped ==
    /\ mounted
    /\ scale > ZoomStep
    /\ scale' = ToFixed1(scale - ZoomStep)
    /\ lastOp' = "zoomOut"
    /\ UNCHANGED <<readerVars, pdfDark, bmVars, cwVars, geomVars, noteVars, dragVars,
                   scrollVars, traceVars, bmStoreVars, favVars>>

\* setScale(s => Math.max(0.5, +(s - 0.2).toFixed(1)))
ZoomOut ==
    /\ mounted
    /\ scale' = Max(MinScale, ToFixed1(scale - ZoomStep))
    /\ lastOp' = "zoomOut"
    /\ UNCHANGED <<readerVars, pdfDark, bmVars, cwVars, geomVars, noteVars, dragVars,
                   scrollVars, traceVars, bmStoreVars, favVars>>

\* A zoom-in that stretches the stored note positions with the page.
ZoomInMovesNotes ==
    /\ mounted
    /\ scale' = Min(MaxScale, ToFixed1(scale + ZoomStep))
    /\ notes' = [i \in 1..Len(notes) |->
                    [notes[i] EXCEPT !.xPct = (notes[i].xPct * scale') \div scale,
                                     !.yPct = (notes[i].yPct * scale') \div scale]]
    /\ lastOp' = "zoomIn"
    /\ UNCHANGED <<readerVars, pdfDark, bmVars, cwVars, geomVars, noteUi, noteCalls,
                   noteReqs, dbNotes, notesLoad, dragVars,
                   scrollVars, traceVars, bmStoreVars, favVars>>

\* setScale(s => Math.min(3, +(s + 0.2).toFixed(1)))
ZoomIn ==
    /\ mounted
    /\ scale' = Min(MaxScale, ToFixed1(scale + ZoomStep))
    /\ lastOp' = "zoomIn"
    /\ UNCHANGED <<readerVars, pdfDark, bmVars, cwVars, geomVars, noteVars, dragVars,
                   scrollVars, traceVars, bmStoreVars, favVars>>

\* setPdfDark(d => !d)
TogglePdfDark ==
    /\ mounted
    /\ pdfDark' = ~pdfDark
    /\ lastOp' = "dark"
    /\ UNCHANGED <<readerVars, scale, bmVars, cwVars, geomVars, noteVars, dragVars,
                   scrollVars, traceVars, bmStoreVars, favVars>>

\* The bookmark load of App answers: setBookmarks({...prev, [id]: pages}).
BookmarksLoaded(pages) ==
    /\ mounted /\ ~bmLoaded
    /\ bookmarks' = pages
    /\ bmLoaded' = TRUE
    /\ lastOp' = "bookmarksLoaded"
    /\ UNCHANGED <<readerVars, viewVars, cwVars, bmCalls, bmBefore, geomVars, noteVars, dragVars,
                   scrollVars, traceVars, bmStoreVars, favVars>>

\* lastOp after a toggle; "toggleAgain" when the step before was a toggle too.
ToggleOps == {"toggle", "toggleAgain"}

\* toggleBookmark through updateBookmarks: newPages = updater(oldPages), the
\* diff against oldPages goes to the store.
ToggleBookmark ==
    /\ mounted
    /\ bookmarks' = Toggled(bookmarks, currentPage)
    /\ bmCalls' = StoreCalls(bookmarks, bookmarks')
    /\ bmBefore' = bookmarks
    /\ lastOp' = IF lastOp \in ToggleOps THEN "toggleAgain" ELSE "toggle"
    /\ UNCHANGED <<readerVars, viewVars, bmLoaded, cwVars, geomVars, noteVars, dragVars,
                   scrollVars, traceVars, favVars>>

\* removeBookmark(page), from a row of the bookmark panel.
RemoveBookmark(page) ==
    /\ mounted
    /\ page \in Range(bookmarks)
    /\ bookmarks' = Without(bookmarks, page)
    /\ bmCalls' = StoreCalls(bookmarks, bookmarks')
    /\ bmBefore' = bookmarks
    /\ lastOp' = "remove"
    /\ UNCHANGED <<readerVars, viewVars, bmLoaded, cwVars, geomVars, noteVars, dragVars,
                   scrollVars, traceVars, favVars>>

\* select('page_number').eq('book_id', id).order('page_number') on these rows.
OrderedRows(pages) == CHOOSE rows \in AscendingSeqs(docPages) : Range(rows) = pages

\* The bookmark load of App reaches the store.
BookmarksLoadServed ==
    /\ bmLoad.stage = "sent"
    /\ bmLoad' = [stage |-> "served", rows |-> OrderedRows(dbBookmarks)]
    /\ lastOp' = "bookmarksLoadServed"
    /\ UNCHANGED <<readerVars, viewVars, bmVars, cwVars, geomVars, noteVars, dragVars,
                   scrollVars, traceVars, dbBookmarks, bmInFlight, favVars>>

\* .then of the bookmark load, no error:
\* setBookmarks(prev => ({...prev, [openBook.id]: data.map(r => r.page_number)})).
BookmarksLoadDelivered ==
    /\ mounted /\ bmLoad.stage = "served"
    /\ bookmarks' = bmLoad.rows
    /\ bmLoaded' = TRUE
    /\ bmLoad' = [stage |-> "done", rows |-> << >>]
    /\ lastOp' = "bookmarksLoaded"
    /\ UNCHANGED <<readerVars, viewVars, cwVars, bmCalls, bmBefore, geomVars, noteVars,
                   dragVars, scrollVars, traceVars, dbBookmarks, bmInFlight, favVars>>

\* The requests in flight after updateBookmarks has issued these calls.
RECURSIVE WithCalls(_, _)
WithCalls(inFlight, calls) ==
    IF calls = << >> THEN inFlight
    ELSE LET free == (1..MaxBmReqs) \ {q.id : q \in inFlight}
             id == CHOOSE i \in free : \A j \in free : i <= j
         IN  WithCalls(inFlight \cup {[id |-> id, op |-> Head(calls).op,
                                       page |-> Head(calls).page]},
                       Tail(calls))

\* toggleBookmark with its fire-and-forget store calls on their way.
ToggleBookmarkSent ==
    /\ ToggleBookmark
    /\ Cardinality(bmInFlight) + Len(bmCalls') <= MaxBmReqs
    /\ bmInFlight' = WithCalls(bmInFlight, bmCalls')
    /\ UNCHANGED <<dbBookmarks, bmLoad>>

\* removeBookmark with its fire-and-forget store call on its way.
RemoveBookmarkSent(page) ==
    /\ RemoveBookmark(page)
    /\ Cardinality(bmInFlight) + Len(bmCalls') <= MaxBmReqs
    /\ bmInFlight' = WithCalls(bmInFlight, bmCalls')
    /\ UNCHANGED <<dbBookmarks, bmLoad>>

\* The store runs one of the calls in flight, in any order, without error;
\* the answer is only looked at for an error.
StoreAppliesBookmark(req) ==
    /\ req \in bmInFlight
    /\ dbBookmarks' = IF req.op = "insert" THEN dbBookmarks \cup {req.page}
                      ELSE dbBookmarks \ {req.page}
    /\ bmInFlight' = bmInFlight \ {req}
    /\ lastOp' = "bookmarkStored"
    /\ UNCHANGED <<readerVars, viewVars, bmVars, cwVars, geomVars, noteVars, dragVars,
                   scrollVars, traceVars, bmLoad, favVars>>

\* Request numbers not in use.
FreeFavIds == (1..MaxFavReqs) \ {q.id : q \in favReqs}

\* toggleFavorite(id) up to its await: newFav = !book.favorite, the optimistic
\* setBooks, the update is sent.
ToggleFavorite(b) ==
    /\ FreeFavIds # {}
    /\ LET newFav == ~favLocal[b]
           id == CHOOSE i \in FreeFavIds : \A j \in FreeFavIds : i <= j
       IN  /\ favLocal' = [favLocal EXCEPT ![b] = newFav]
           /\ favReqs' = favReqs \cup
                  {[id |-> id, book |-> b, favorite |-> newFav, stage |-> "sent"]}
    /\ lastOp' = "toggleFavorite"
    /\ UNCHANGED <<readerVars, viewVars, bmVars, cwVars, geomVars, noteVars, dragVars,
                   scrollVars, traceVars, bmStoreVars, favRemote>>

\* The store runs update({ favorite: newFav }).eq('id', id).
StoreUpdatesFavorite(req) ==
    /\ req \in favReqs /\ req.stage = "sent"
    /\ favRemote' = [favRemote EXCEPT ![req.book] = req.favorite]
    /\ favReqs' = (favReqs \ {req}) \cup {[req EXCEPT !.stage = "stored"]}
    /\ lastOp' = "favoriteStored"
    /\ UNCHANGED <<readerVars, viewVars, bmVars, cwVars, geomVars, noteVars, dragVars,
                   scrollVars, traceVars, bmStoreVars, favLocal>>

\* toggleFavorite after its await, no error: nothing left to do.
FavoriteAck(req) ==
    /\ req \in favReqs /\ req.stage = "stored"
    /\ favReqs' = favReqs \ {req}
    /\ lastOp' = "favoriteAck"
    /\ UNCHANGED <<readerVars, viewVars, bmVars, cwVars, geomVars, noteVars, dragVars,
                   scrollVars, traceVars, bmStoreVars, favLocal, favRemote>>

\* toggleFavorite after its await with an error: the update did not run; the
\* revert is setBooks(... favorite: !newFav).
FavoriteFails(req) ==
    /\ req \in favReqs /\ req.stage = "sent"
    /\ favLocal' = [favLocal EXCEPT ![req.book] = ~req.favorite]
    /\ favReqs' = favReqs \ {req}
    /\ lastOp' = "favoriteFailed"
    /\ UNCHANGED <<readerVars, viewVars, bmVars, cwVars, geomVars, noteVars, dragVars,
                   scrollVars, traceVars, bmStoreVars, favRemote>>

\* computeWindow applied to the arguments drawn in InitWindow.
CallComputeWindow ==
    /\ ~cwCalled
    /\ cwOut' = ComputeWindow(cwIn.page, cwIn.count, cwIn.radius)
    /\ cwCalled' = TRUE
    /\ lastOp' = "computeWindow"
    /\ UNCHANGED <<readerVars, viewVars, bmVars, cwIn, geomVars, noteVars, dragVars,
                   scrollVars, traceVars, bmStoreVars, favVars>>

\* ----------------------------------------------------------- specifications
\* The visibility resolver on small documents with the full set of ratios.
Next ==
    \/ DocumentLoadSuccess
    \/ DocumentLoadError
    \/ \E entries \in Batches(1..MaxResolverPages, Ratios, 1) : ObserverCallback(entries) /\ UNCHANGED traceVars
    \/ \E entries \in Batches(1..MaxResolverPages, PairRatios, 2) : ObserverCallback(entries) /\ UNCHANGED traceVars
    \/ \E t \in timers : CommitTimerFires(t) /\ UNCHANGED traceVars
    \/ Tick
    \/ CloseReader

Spec == Init /\ [][Next]_vars

\* Navigation through longer documents: pages in full view or out of view.
NextNav ==
    \/ DocumentLoadSuccess
    \/ DocumentLoadError
    \/ \E entries \in Batches(1..MaxPages, NavRatios, 1) : ObserverCallback(entries) /\ UNCHANGED traceVars
    \/ \E t \in timers : CommitTimerFires(t) /\ UNCHANGED traceVars
    \/ Tick
    \/ CloseReader

SpecNav == InitNav /\ [][NextNav]_vars

\* The resolver on two-page documents with every batch traced; timeouts of
\* the runtime fire in the end.
InitTraced ==
    /\ InitReader
    /\ dbNotes = {}
    /\ docPages \in 1..MaxBookmarkPages
    /\ scale = WideScale

NextTraced ==
    \/ DocumentLoadSuccess
    \/ DocumentLoadError
    \/ \E entries \in Batches(1..docPages, Ratios, 1) : ObserverCallbackTraced(entries)
    \/ \E entries \in Batches(1..docPages, PairRatios, 2) : ObserverCallbackTraced(entries)
    \/ \E t \in timers : CommitTraced(t)
    \/ Tick
    \/ CloseReader

SpecTraced ==
    /\ InitTraced
    /\ [][NextTraced]_vars
    /\ WF_vars(Tick)
    /\ WF_vars(\E t \in timers : CommitTraced(t))

\* Everything the reader offers on a short document: scrolling, navigation,
\* zoom, dark mode, bookmarks and notes.
\* Page navigation: the buttons scroll, the viewport reports, the commit
\* follows; zoom changes in between.
InitScroll ==
    /\ InitReader
    /\ dbNotes = {}
    /\ docPages \in 1..MaxBookmarkPages
    /\ scale = WideScale

NextScroll ==
    \/ DocumentLoadSuccess
    \/ \E entries \in Batches(1..docPages, NavRatios, 1) : ObserverCallbackTraced(entries)
    \/ \E t \in timers : CommitTraced(t)
    \/ Tick
    \/ PrevPage
    \/ NextPage
    \/ ZoomIn
    \/ ZoomOut

SpecScroll == InitScroll /\ [][NextScroll]_vars

\* Every control of the reader next to the resolver, on a narrow screen.
InitFrame ==
    /\ InitReader
    /\ dbNotes = {}
    /\ docPages \in 1..MaxBookmarkPages
    /\ scale = NarrowScale

NextFrame ==
    \/ DocumentLoadSuccess
    \/ \E entries \in Batches(1..docPages, NavRatios, 1) : ObserverCallback(entries) /\ UNCHANGED traceVars
    \/ \E t \in timers : CommitTimerFires(t) /\ UNCHANGED traceVars
    \/ Tick
    \/ PrevPage
    \/ NextPage
    \/ \E page \in 1..docPages : BookmarkJump(page)
    \/ ZoomOut
    \/ TogglePdfDark
    \/ ToggleBookmark /\ UNCHANGED bmStoreVars
    \/ AddNote
    \/ \E q \in noteReqs : StoreInsert(q)
    \/ \E q \in noteReqs : AddNoteAck(q)
    \/ \E id \in NoteIds : DeleteNote(id)

SpecFrame == InitFrame /\ [][NextFrame]_vars

\* The toolbar: zoom and dark mode.
NextView ==
    \/ DocumentLoadSuccess
    \/ DocumentLoadError
    \/ GeometryResolved
    \/ GeometryFailed
    \/ NotesLoadServed
    \/ NotesLoaded
    \/ ZoomIn
    \/ ZoomOut
    \/ TogglePdfDark
    \/ CloseReader

SpecView == InitView /\ [][NextView]_vars

\* Notes of the open book are dragged and opened with the mouse.
InitDrag ==
    /\ InitReader
    /\ dbNotes \in {rows \in SUBSET DragRows : (\E r \in rows : r.id = 1)}
    /\ docPages = 1
    /\ scale \in {NarrowScale, WideScale}

NextDrag ==
    \/ DocumentLoadSuccess
    \/ NotesLoadServed
    \/ NotesLoaded
    \/ \E id \in RowIds(dbNotes), btn \in Buttons : MouseDown(id, btn)
    \/ MouseDownElsewhere
    \/ \E at \in PointerAt : MouseMove(at)
    \/ \E onCard \in BOOLEAN : MouseUp(onCard)
    \/ \E id \in RowIds(dbNotes) : SaveNote(id)

SpecDrag == InitDrag /\ [][NextDrag]_vars

\* Notes are added while the reader moves between pages.
FullyVisible == {100}

InitNoteStore ==
    /\ InitReader
    /\ dbNotes = {}
    /\ docPages \in 1..MaxBookmarkPages
    /\ scale = WideScale

NextNoteStore ==
    \/ DocumentLoadSuccess
    \/ \E b \in Batches(1..docPages, FullyVisible, 1) : ObserverCallback(b) /\ UNCHANGED traceVars
    \/ \E t \in timers : CommitTimerFires(t) /\ UNCHANGED traceVars
    \/ Tick
    \/ NotesLoadServed
    \/ NotesLoaded
    \/ NotesLoadFails
    \/ AddNote
    \/ \E q \in noteReqs : StoreInsert(q)
    \/ \E q \in noteReqs : AddNoteAck(q)
    \/ \E q \in noteReqs : AddNoteFails(q)
    \/ CloseReader

SpecNoteStore == InitNoteStore /\ [][NextNoteStore]_vars

\* The page slots of a document longer than the render window: the window
\* moves, the page size arrives or not, the user zooms out and toggles dark.
InitSlots ==
    /\ InitReader
    /\ dbNotes = {}
    /\ docPages = MaxPages
    /\ scale = WideScale

NextSlots ==
    \/ DocumentLoadSuccess
    \/ GeometryResolved
    \/ GeometryFailed
    \/ \E entries \in Batches(1..docPages, FullyVisible, 1) : ObserverCallback(entries) /\ UNCHANGED traceVars
    \/ \E t \in timers : CommitTimerFires(t) /\ UNCHANGED traceVars
    \/ Tick
    \/ ZoomOut
    \/ TogglePdfDark

SpecSlots == InitSlots /\ [][NextSlots]_vars

\* Bookmarks and notes of the open book, edited on the page the reader
\* opened at.
InitPersist ==
    /\ InitReader
    /\ dbNotes = {}
    /\ docPages \in 1..MaxBookmarkPages
    /\ scale = WideScale

NextPersist ==
    \/ DocumentLoadSuccess
    \/ \E pages \in AscendingSeqs(docPages) : BookmarksLoaded(pages)
    \/ ToggleBookmark /\ UNCHANGED bmStoreVars
    \/ \E page \in 1..MaxBookmarkPages : RemoveBookmark(page) /\ UNCHANGED bmStoreVars
    \/ NotesLoadServed
    \/ NotesLoaded
    \/ NotesLoadFails
    \/ AddNote
    \/ \E q \in noteReqs : StoreInsert(q)
    \/ \E q \in noteReqs : AddNoteAck(q)
    \/ \E q \in noteReqs : AddNoteFails(q)
    \/ \E id \in NoteIds, text \in Contents : TypeDraft(id, text)
    \/ \E id \in NoteIds : SaveNote(id)
    \/ \E id \in NoteIds : DeleteNote(id)
    \/ CloseReader

SpecPersist == InitPersist /\ [][NextPersist]_vars

\* Bookmarks of the open book while the reader moves between pages.
NextBookmarks ==
    \/ DocumentLoadSuccess
    \/ \E entries \in Batches(1..MaxBookmarkPages, NavRatios, 1) : ObserverCallback(entries) /\ UNCHANGED traceVars
    \/ \E t \in timers : CommitTimerFires(t) /\ UNCHANGED traceVars
    \/ Tick
    \/ \E pages \in AscendingSeqs(docPages) : BookmarksLoaded(pages)
    \/ ToggleBookmark /\ UNCHANGED bmStoreVars
    \/ \E page \in 1..MaxBookmarkPages : RemoveBookmark(page) /\ UNCHANGED bmStoreVars
    \/ CloseReader

SpecBookmarks == InitBookmarks /\ [][NextBookmarks]_vars

\* computeWindow as a pure function of its arguments.
NextWindow == CallComputeWindow

SpecWindow == InitWindow /\ [][NextWindow]_vars

\* The bookmarks of the open book and the store: the load, toggles on the
\* first page, removals, and the store running the calls.
NextBmStore ==
    \/ DocumentLoadSuccess
    \/ BookmarksLoadServed
    \/ BookmarksLoadDelivered
    \/ ToggleBookmarkSent
    \/ \E page \in 1..docPages : RemoveBookmarkSent(page)
    \/ \E req \in bmInFlight : StoreAppliesBookmark(req)

SpecBmStore == InitBookmarks /\ [][NextBmStore]_vars

\* The favorite flag of the library's books: toggles, the store, the answers.
NextFavorites ==
    \/ \E b \in Books : ToggleFavorite(b)
    \/ \E req \in favReqs : StoreUpdatesFavorite(req)
    \/ \E req \in favReqs : FavoriteAck(req)
    \/ \E req \in favReqs : FavoriteFails(req)

SpecFavorites == InitBookmarks /\ [][NextFavorites]_vars

\* ------------------------------------------------------------------- claims
AllAtMostThreshold == \A p \in DOMAIN ratioMapRef : ratioMapRef[p] <= CommitThreshold

\* C1: a commit that finds no page with a ratio strictly above 0.6 leaves
\* currentPage as it was; so batches that only ever report ratios up to 0.55
\* never move it.
C1_NoMajorityKeepsPage ==
    [][(lastOp' = "commit" /\ AllAtMostThreshold) => currentPage' = currentPage]_vars

\* A commit has just run over two pages at 0.5 and one other than the current
\* page exactly at 0.6, and the current page is still the one set by the load.
C1_Witness ==
    /\ lastOp = "commit"
    /\ AllAtMostThreshold
    /\ currentPage = 1
    /\ \E a, b \in DOMAIN ratioMapRef :
          /\ a # b /\ a # 1
          /\ ratioMapRef[a] = 60
          /\ ratioMapRef[b] = 50

\* Page P is above the threshold and every other entry is at most 0.5.
Dominates(P) ==
    /\ P \in DOMAIN ratioMapRef
    /\ ratioMapRef[P] > CommitThreshold
    /\ \A q \in DOMAIN ratioMapRef \ {P} : ratioMapRef[q] <= 50

\* C2: when page P holds a ratio above 0.6 and every other page at most 0.5,
\* the next commit sets currentPage to P.
C2_DominantPageCommitted ==
    [][\A P \in 1..MaxPages : (lastOp' = "commit" /\ Dominates(P)) => currentPage' = P]_vars

\* A commit has moved currentPage to a page at 0.7 while two others are at 0.5.
C2_Witness ==
    /\ lastOp = "commit"
    /\ currentPage # 1
    /\ Dominates(currentPage)
    /\ ratioMapRef[currentPage] = 70
    /\ \E q \in DOMAIN ratioMapRef \ {currentPage} : ratioMapRef[q] = 50

\* C3 as stated: a page that leaves the render window has no entry in the
\* ratio map afterwards.
C3_PurgedOnUnmount ==
    [][\A p \in renderedPages \ renderedPages' : p \notin DOMAIN ratioMapRef']_vars

\* C3 amended: a page that leaves the render window keeps its entry and its
\* last ratio (no step removes or resets an entry), and a page outside the
\* window that holds the strictly highest ratio, above 0.6, is committed.
C3_EntriesOutliveWindow ==
    [][/\ \A p \in DOMAIN ratioMapRef : p \in DOMAIN ratioMapRef'
       /\ \A p \in renderedPages \ renderedPages' :
             p \in DOMAIN ratioMapRef => ratioMapRef'[p] = ratioMapRef[p]
       /\ \A P \in DOMAIN ratioMapRef \ renderedPages :
             (/\ lastOp' = "commit"
              /\ ratioMapRef[P] > CommitThreshold
              /\ \A q \in DOMAIN ratioMapRef \ {P} : ratioMapRef[q] < ratioMapRef[P])
             => currentPage' = P]_vars

\* Only pages 1 and 4 ever reported, so the commit went from page 1 straight
\* to page 4, a placeholder of the window {1,2,3}; page 1 has left the window
\* {2,3,4} and still has its entry.
C3_Witness ==
    /\ lastOp = "commit"
    /\ currentPage = 4
    /\ DOMAIN ratioMapRef = {1, 4}
    /\ ratioMapRef[4] = 100
    /\ 1 \notin renderedPages

\* C4 as stated: only mounted pages have an entry in the ratio map.
C4_KeysAreMounted == DOMAIN ratioMapRef \subseteq renderedPages

\* C4 amended: every key of the ratio map is a page slot of the document,
\* mounted or placeholder, and each batch adds exactly the slots it names.
C4_KeysAreSlots ==
    /\ [](DOMAIN ratioMapRef \subseteq 1..numPages)
    /\ [][lastOp' = "batch" =>
            /\ DOMAIN ratioMapRef \subseteq DOMAIN ratioMapRef'
            /\ DOMAIN ratioMapRef' \ DOMAIN ratioMapRef \subseteq observed]_vars

\* A placeholder has just reported and has an entry.
C4_Witness ==
    /\ lastOp = "batch"
    /\ \E p \in DOMAIN ratioMapRef : p \notin renderedPages /\ ratioMapRef[p] = 100

\* C5: at most one commit timer is pending; a batch that arrives while one is
\* pending leaves the timer as it is, and a commit comes no sooner than a full
\* delay after the commit before it.
C5_SingleTimer ==
    /\ [](Cardinality(timers) <= 1)
    /\ [][/\ (lastOp' = "batch" /\ ioThrottleRef # 0) =>
                 (timers' = timers /\ ioThrottleRef' = ioThrottleRef)
          /\ lastOp' = "commit" => sinceCommit >= TimerTicks]_vars

\* A batch has arrived while the timer armed by an earlier batch was running,
\* after an earlier commit.
C5_Witness ==
    /\ lastOp = "batch"
    /\ sinceCommit < TimerTicks
    /\ \E t \in timers : t.id = ioThrottleRef /\ t.left < TimerTicks

\* The render window the data model prescribes.
WindowRange == {i \in 1..numPages : /\ i >= Max(1, currentPage - 2)
                                    /\ i <= Min(numPages, currentPage + 2)}

\* C6: once a document is loaded the render window is the page range
\* [max(1, currentPage - 2), min(pageCount, currentPage + 2)]; it contains
\* currentPage, lies within the document and has at most five pages.
C6_RenderWindow ==
    numPages # 0 =>
        /\ renderedPages = WindowRange
        /\ currentPage \in renderedPages
        /\ renderedPages \subseteq 1..numPages
        /\ Cardinality(renderedPages) <= 2 * PDF_RENDER_BUFFER + 1

\* The window has followed currentPage to the last page of a document longer
\* than the window and is cut off at the document's end.
C6_Witness ==
    /\ lastOp = "commit"
    /\ numPages >= 4
    /\ currentPage = numPages
    /\ renderedPages = {numPages - 2, numPages - 1, numPages}

FullWindow == Min(2 * cwIn.radius + 1, cwIn.count)

\* C7 as stated: the window's size is min(2 * bufferRadius + 1, pageCount).
C7_ExactSize == cwCalled => Cardinality(cwOut) = FullWindow

\* C7 amended: the window is the range from max(1, currentPage - R) to
\* min(pageCount, currentPage + R); its size is at most min(2R + 1, pageCount)
\* and reaches 2R + 1 when no boundary of the document is within R pages.
C7_ClampedSize ==
    cwCalled =>
        LET lo == Max(1, cwIn.page - cwIn.radius)
            hi == Min(cwIn.count, cwIn.page + cwIn.radius)
        IN  /\ cwOut = {i \in 1..cwIn.count : lo <= i /\ i <= hi}
            /\ cwIn.page \in cwOut
            /\ Cardinality(cwOut) = hi - lo + 1
            /\ Cardinality(cwOut) <= FullWindow
            /\ (cwIn.page - cwIn.radius >= 1 /\ cwIn.page + cwIn.radius <= cwIn.count)
                   => Cardinality(cwOut) = 2 * cwIn.radius + 1

\* computeWindow(1, 7, 2): three pages where the bound is five.
C7_Witness ==
    /\ cwCalled
    /\ cwIn = [page |-> 1, count |-> 7, radius |-> 2]
    /\ cwOut = {1, 2, 3}

\* C8: closing the reader while a commit is pending cancels it: no timeout is
\* left and currentPage is not written after the teardown.
C8_TeardownCancels ==
    /\ [](~mounted => (timers = {} /\ ioThrottleRef = 0))
    /\ [][~mounted => currentPage' = currentPage]_vars

\* The reader was closed while the commit timer was running, with a page
\* other than the current one above the threshold.
C8_Witness ==
    /\ lastOp = "closeCancel"
    /\ ~mounted
    /\ \E p \in DOMAIN ratioMapRef : p # currentPage /\ ratioMapRef[p] > CommitThreshold

\* C9: the zoom scale stays within [0.5, 3.0]; zooming moves it by one step of
\* 0.2, or to the bound when the step would leave the range.
C9_ZoomClamped ==
    /\ [](MinScale <= scale /\ scale <= MaxScale)
    /\ [][/\ lastOp' = "zoomIn" =>
                 scale' = (IF scale + 20 <= 300 THEN scale + 20 ELSE 300)
          /\ lastOp' = "zoomOut" =>
                 scale' = (IF scale - 20 >= 50 THEN scale - 20 ELSE 50)]_vars

\* A zoom-out from the narrow viewport's 0.6 has been cut off at 0.5.
C9_Witness == lastOp = "zoomOut" /\ scale = 50 /\ pdfDark

\* The bookmark sequence is strictly ascending.
Ascending(seq) == \A i \in 1..(Len(seq) - 1) : seq[i] < seq[i + 1]

\* C10: the bookmark sequence is ascending without duplicates; a toggle adds
\* the current page when it is absent and removes it when present, a removal
\* takes out one page, and the other pages stay.
C10_BookmarksSortedSet ==
    /\ [](Ascending(bookmarks))
    /\ [][/\ lastOp' \in ToggleOps =>
                 Range(bookmarks') =
                     (IF currentPage \in Range(bookmarks)
                      THEN Range(bookmarks) \ {currentPage}
                      ELSE Range(bookmarks) \cup {currentPage})
          /\ lastOp' = "remove" =>
                 /\ Range(bookmarks') \subseteq Range(bookmarks)
                 /\ Cardinality(Range(bookmarks) \ Range(bookmarks')) = 1]_vars

\* The page just bookmarked is lower than one bookmarked before it and has
\* been sorted to the front.
C10_Witness ==
    /\ lastOp = "toggle"
    /\ Len(bookmarks) = 2
    /\ currentPage = bookmarks[1]

InsertsOf(calls) == {i \in 1..Len(calls) : calls[i].op = "insert"}
DeletesOf(calls) == {i \in 1..Len(calls) : calls[i].op = "delete"}

\* C11: a bookmark update issues exactly one insert for each page that is in
\* the new sequence and not in the old one, exactly one delete for each page
\* that is in the old sequence and not in the new one, and no other call.
C11_MinimalDiff ==
    [][lastOp' \in ToggleOps \cup {"remove"} =>
          LET added == Range(bookmarks') \ Range(bookmarks)
              removed == Range(bookmarks) \ Range(bookmarks')
          IN  /\ {bmCalls'[i].page : i \in InsertsOf(bmCalls')} = added
              /\ Cardinality(InsertsOf(bmCalls')) = Cardinality(added)
              /\ {bmCalls'[i].page : i \in DeletesOf(bmCalls')} = removed
              /\ Cardinality(DeletesOf(bmCalls')) = Cardinality(removed)
              /\ InsertsOf(bmCalls') \cup DeletesOf(bmCalls') = 1..Len(bmCalls')]_vars

\* A toggle has added a page to a bookmark already there and issued the one
\* insert.
C11_Witness ==
    /\ lastOp = "toggle"
    /\ Len(bookmarks) = 2
    /\ bmCalls = <<[op |-> "insert", page |-> currentPage]>>

C19_GeometryFailureKeepsDefaults ==
    /\ [](geom = "failed" =>
            baseDims = [width |-> FallbackWidth, height |-> FallbackHeight])
    /\ [][lastOp' = "geometryFailed" =>
            /\ numPages' = docPages
            /\ currentPage' = 1
            /\ ~loadError']_vars

C19_Witness ==
    /\ lastOp = "geometryFailed"
    /\ numPages = MaxResolverPages
    /\ baseDims # docDims

\* C20: after a load error the reader shows "unable to load", has no page
\* slots, and nothing in the session clears the error or loads again.
C20_LoadErrorIsFinal ==
    /\ [](loadError => numPages = 0 /\ observed = {} /\ DOMAIN noteUi = {})
    /\ [][loadError => loadError']_vars

C20_Witness ==
    /\ loadError
    /\ lastOp = "zoomIn"
    /\ numPages = 0

\* C17: a note created on request has empty content, the page that was
\* current when it was requested, xPct = 5 and yPct = 5, and its card opens
\* in the editing state.
C17_NewNoteDefaults ==
    [][/\ lastOp' = "addNote" =>
            noteReqs' \ noteReqs =
                {[id |-> 0, page |-> currentPage, x_pct |-> 5, y_pct |-> 5,
                  content |-> ""]}
       /\ lastOp' = "addNoteAck" =>
            LET n == notes'[Len(notes')]
            IN  /\ Len(notes') = Len(notes) + 1
                /\ n.content = "" /\ n.xPct = 5 /\ n.yPct = 5
                /\ \E q \in noteReqs \ noteReqs' : q.page = n.page /\ q.id = n.id
                /\ n.id \in DOMAIN noteUi'
                /\ noteUi'[n.id].editing]_vars

C17_Witness ==
    /\ lastOp = "addNoteAck"
    /\ currentPage = 1
    /\ notes = <<[id |-> 1, page |-> 2, xPct |-> 5, yPct |-> 5, content |-> ""]>>
    /\ noteUi[1].editing

\* C18 as stated: the local state reflects every persistence operation,
\* insertNote included, when its store call is issued.
C18_LocalFirst ==
    [][lastOp' = "addNote" => Len(notes') = Len(notes) + 1]_vars

\* C18: when insertBookmark, deleteBookmark, updateNote or deleteNote is
\* issued the local state already shows the change; insertNote is awaited:
\* the local list is untouched when the insert is sent, gains the note when the
\* store answers, and stays as it is when the insert fails.
C18_LocalFirstButInsert ==
    [][/\ lastOp' \in ToggleOps \cup {"remove"} =>
            \A i \in 1..Len(bmCalls') :
                (bmCalls'[i].op = "insert") = (bmCalls'[i].page \in Range(bookmarks'))
       /\ lastOp' = "saveNote" =>
            /\ Len(noteCalls') = 1 /\ noteCalls'[1].op = "updateNote"
            /\ \A i \in 1..Len(notes') :
                    notes'[i].id = noteCalls'[1].id =>
                        notes'[i].content = noteCalls'[1].payload.content
       /\ lastOp' = "deleteNote" =>
            /\ Len(noteCalls') = 1 /\ noteCalls'[1].op = "deleteNote"
            /\ \A i \in 1..Len(notes') : notes'[i].id # noteCalls'[1].id
       /\ lastOp' = "addNote" =>
            /\ noteCalls'[1].op = "insertNote"
            /\ notes' = notes
            /\ noteReqs' # noteReqs
       /\ lastOp' = "addNoteAck" => Len(notes') = Len(notes) + 1
       /\ lastOp' = "addNoteFailed" => notes' = notes]_vars

C18_Witness ==
    /\ lastOp = "saveNote"
    /\ Len(notes) = 1 /\ notes[1].content = "a"
    /\ noteCalls = <<[op |-> "updateNote", id |-> notes[1].id,
                      payload |-> [content |-> "a"]]>>

\* C13: every mousemove of a drag sets the note's xPct and yPct to the
\* position it had at mousedown plus (pixel delta / rendered page dimension)
\* * 100, clamped to [0, 95].
C13_DragFormula ==
    [][/\ lastOp' = "mouseDown" =>
            \A l \in listeners' \ listeners :
                /\ l.startXPct = NoteWithId(notes, l.id).xPct
                /\ l.startYPct = NoteWithId(notes, l.id).yPct
                /\ l.startMouseX = pointer.x /\ l.startMouseY = pointer.y
       /\ lastOp' = "mouseMove" =>
            \A l \in listeners :
                LET n == NoteWithId(notes', l.id)
                    w == (DocWidth * scale) \div 100
                    h == (DocHeight * scale) \div 100
                    x == l.startXPct + ((pointer'.x - l.startMouseX) * 100) \div w
                    y == l.startYPct + ((pointer'.y - l.startMouseY) * 100) \div h
                IN  /\ n.xPct = (IF x < 0 THEN 0 ELSE IF x > 95 THEN 95 ELSE x)
                    /\ n.yPct = (IF y < 0 THEN 0 ELSE IF y > 95 THEN 95 ELSE y)]_vars

C13_Witness ==
    /\ lastOp = "mouseMove"
    /\ scale = NarrowScale
    /\ \E l \in listeners : l.id = 1 /\ l.startXPct = 5 /\ l.startMouseX = 0
    /\ notes[1].xPct = 95 /\ notes[1].yPct = 55

\* C14: in one mousedown/mouseup cycle on a note that is not being edited,
\* the click opens the editor exactly when no mousemove fired in the cycle.
C14_DragOrEdit ==
    [][lastOp' = "click" =>
        /\ ~noteUi[downOn].editing
        /\ noteUi'[downOn].editing = ~moved]_vars

C14_Witness ==
    /\ lastOp = "click"
    /\ moved
    /\ pointer = [x |-> 0, y |-> 0]
    /\ notes[1].id = 1 /\ notes[1].xPct = 5 /\ notes[1].yPct = 5
    /\ ~noteUi[1].editing

\* Positions of the notes, in list order.
PosOf(list) == [i \in 1..Len(list) |-> <<list[i].xPct, list[i].yPct>>]

\* C15: a drag session ends at mouseup; after it mousemoves change no note
\* position until the primary button goes down again on a note that is not
\* being edited, and only such a mousedown starts a session.
C15_SessionEndsAtMouseUp ==
    [][/\ lastOp' \in {"mouseUp", "click"} => listeners' = {}
       /\ (lastOp' = "mouseMove" /\ PosOf(notes') # PosOf(notes)) =>
            button = 0 /\ downOn # 0
       /\ ~(listeners' \subseteq listeners) =>
            /\ lastOp' = "mouseDown"
            /\ button' = 0
            /\ downOn' \in DOMAIN noteUi
            /\ ~noteUi[downOn'].editing]_vars

C15_Witness ==
    /\ lastOp = "mouseMove"
    /\ button = -1 /\ listeners = {}
    /\ scale = WideScale
    /\ pointer = [x |-> 0, y |-> 0]
    /\ Len(notes) > 0
    /\ notes[1].xPct = 55 /\ notes[1].yPct = 30

\* C16: zooming changes no note's xPct, yPct, page or content; the note is
\* drawn at xPct/100 of the rendered width and yPct/100 of the rendered
\* height: (10, 20) is (60, 180) on a 600 x 900 page and (120, 360) on the
\* same page at 1200 x 1800.
C16_ZoomKeepsNotes ==
    /\ [][lastOp' \in {"zoomIn", "zoomOut"} => notes' = notes]_vars
    /\ [](\A i \in 1..Len(notes) :
            (notes[i].page \in renderedPages /\ notes[i].xPct = 10 /\ notes[i].yPct = 20)
            => /\ scale = 100 => NotePixel(notes[i]) = [x |-> 60, y |-> 180]
               /\ scale = 200 => NotePixel(notes[i]) = [x |-> 120, y |-> 360])

C16_Witness ==
    /\ lastOp = "zoomIn"
    /\ scale = 200
    /\ numPages > 0
    /\ Len(notes) = 2
    /\ notes[2].xPct = 10 /\ notes[2].yPct = 20
    /\ NotePixel(notes[2]) = [x |-> 120, y |-> 360]

\* Pages a batch mentions, and the ratio its last entry for a page reports.
Mentioned(entries) == {entries[i].page : i \in 1..Len(entries)}

LastRatio(entries, p) ==
    entries[CHOOSE i \in 1..Len(entries) :
                /\ entries[i].page = p
                /\ \A j \in (i + 1)..Len(entries) : entries[j].page # p].ratio

\* C24: a batch sets the entry of every page it mentions to the ratio it
\* reports, the last one when it reports several, and leaves every other
\* entry and currentPage as they were.
C24_MergeFrame ==
    [][lastOp' = "batch" =>
        /\ DOMAIN ratioMapRef' = DOMAIN ratioMapRef \cup Mentioned(lastBatch')
        /\ \A p \in Mentioned(lastBatch') : ratioMapRef'[p] = LastRatio(lastBatch', p)
        /\ \A p \in DOMAIN ratioMapRef \ Mentioned(lastBatch') :
                ratioMapRef'[p] = ratioMapRef[p]
        /\ currentPage' = currentPage]_vars

C24_Witness ==
    /\ lastOp = "batch"
    /\ lastBatch = <<[page |-> 2, ratio |-> 50], [page |-> 2, ratio |-> 70]>>
    /\ DOMAIN ratioMapRef = {1, 2}
    /\ ratioMapRef[1] = 100 /\ ratioMapRef[2] = 70
    /\ currentPage = 1

\* Pages that hold the highest ratio of a map.
TopPages(map) == {p \in DOMAIN map : \A q \in DOMAIN map : map[q] <= map[p]}

\* C25: what a commit chooses depends on the map alone: the lowest page among
\* those that hold the highest ratio of the whole map (committed when that
\* ratio is above the threshold).
C25_CommitIsFunctionOfMap ==
    [][lastOp' = "commit" =>
        LET top == TopPages(ratioMapRef)
        IN  IF top # {} /\ (\E p \in top : ratioMapRef[p] > CommitThreshold)
            THEN /\ currentPage' \in top
                 /\ \A p \in top : currentPage' <= p
            ELSE currentPage' = currentPage]_vars

C25_Witness ==
    /\ lastOp = "commit"
    /\ DOMAIN ratioMapRef = {2, 3}
    /\ ratioMapRef[2] = 70 /\ ratioMapRef[3] = 70
    /\ currentPage = 2

\* C26: a commit fires only when a batch has arrived since the commit before
\* it; a batch that arrives always has a timeout armed for it, the commit that
\* follows scans a map holding the values of the latest batch, and while the
\* reader stays open that commit does fire.
C26_CommitsFollowBatches ==
    /\ [][lastOp' = "commit" =>
            /\ unscanned
            /\ \A p \in Mentioned(lastBatch) : ratioMapRef[p] = LastRatio(lastBatch, p)]_vars
    /\ []((mounted /\ unscanned) =>
            (ioThrottleRef # 0 /\ \E t \in timers : t.id = ioThrottleRef))
    /\ ((mounted /\ unscanned) ~> (~unscanned \/ ~mounted))

C26_Witness ==
    /\ lastOp = "commit"
    /\ ~unscanned
    /\ currentPage = 2
    /\ DOMAIN ratioMapRef = {1, 2}
    /\ ratioMapRef[1] = 50 /\ ratioMapRef[2] = 50

\* C21: once a document has loaded the current page is one of its pages,
\* 1 <= currentPage <= numPages, whatever batches, commits, navigation and
\* zoom steps have happened.
C21_PageInRange == numPages > 0 => (1 <= currentPage /\ currentPage <= numPages)

C21_Witness ==
    /\ lastOp = "commit"
    /\ numPages = 2
    /\ currentPage = 2
    /\ scrollTarget = 2
    /\ scale = MinScale

\* C22: after scrollToPage(n), once the viewport has reported page n (here:
\* as fully in view) and the next commit fires, currentPage is n and the
\* render window is [max(1, n - 2), min(numPages, n + 2)].
C22_ScrollReachesTarget ==
    [][(/\ lastOp' = "commit"
        /\ scrollTarget # 0
        /\ targetSeen
        /\ scrollTarget \in DOMAIN ratioMapRef
        /\ ratioMapRef[scrollTarget] = 100)
       => (/\ currentPage' = scrollTarget
           /\ renderedPages' = {p \in 1..numPages :
                                  /\ Max(1, scrollTarget - 2) <= p
                                  /\ p <= Min(numPages, scrollTarget + 2)})]_vars

\* Operations that are neither a load, a batch nor a commit.
FrameOps ==
    {"scroll", "zoomIn", "zoomOut", "dark", "toggle", "toggleAgain", "remove",
     "addNote", "storeInsert", "addNoteAck", "deleteNote"}

\* C30: currentPage changes only in a commit or in the load, which sets it to
\* 1; the ratio map changes only in a batch; scrolling, zoom, dark mode,
\* bookmark and note operations leave both alone; a commit moves currentPage
\* only to a page whose entry in the map is above the threshold.
C30_OnlyCommitAndLoadWrite ==
    [][/\ (currentPage' # currentPage => lastOp' \in {"commit", "load"})
       /\ (lastOp' = "load" => currentPage' = 1)
       /\ (ratioMapRef' # ratioMapRef => lastOp' = "batch")
       /\ (lastOp' \in FrameOps =>
              currentPage' = currentPage /\ ratioMapRef' = ratioMapRef)
       /\ ((lastOp' = "commit" /\ currentPage' # currentPage) =>
              /\ currentPage' \in DOMAIN ratioMapRef
              /\ ratioMapRef[currentPage'] > CommitThreshold)]_vars

C30_Witness ==
    /\ lastOp = "scroll"
    /\ scrollTarget = 2
    /\ currentPage = 1
    /\ bookmarks = <<2>>
    /\ pdfDark
    /\ scale = MinScale
    /\ Len(notes) > 0

\* C23 as stated: a slot mounts the real page exactly when the page is in the
\* render window; every other slot is a placeholder of exactly the reference
\* page size times the scale; the dark filter is on rendered slots only.
C23_SlotsExact ==
    \A p \in 1..numPages :
        /\ Slot(p).page <=> (/\ Max(1, currentPage - PDF_RENDER_BUFFER) <= p
                             /\ p <= Min(numPages, currentPage + PDF_RENDER_BUFFER))
        /\ ~Slot(p).page => /\ Slot(p).width * 100 = baseDims.width * scale
                            /\ Slot(p).height * 100 = baseDims.height * scale
        /\ Slot(p).filter # "none" => Slot(p).page

\* C23, amended: a slot mounts the real page exactly when the page is in the
\* render window; every other slot is a placeholder whose width and height
\* are the reference page size times the scale, rounded to the nearest whole
\* pixel; the dark filter is on rendered slots only, and on all of them in
\* dark mode.
C23_SlotsRounded ==
    \A p \in 1..numPages :
        /\ Slot(p).page <=> (/\ Max(1, currentPage - PDF_RENDER_BUFFER) <= p
                             /\ p <= Min(numPages, currentPage + PDF_RENDER_BUFFER))
        /\ ~Slot(p).page =>
              /\ 2 * (100 * Slot(p).width - baseDims.width * scale) \in -99..100
              /\ 2 * (100 * Slot(p).height - baseDims.height * scale) \in -99..100
        /\ Slot(p).filter # "none" => Slot(p).page
        /\ (Slot(p).page /\ pdfDark) => Slot(p).filter # "none"

C23_Witness ==
    /\ lastOp = "zoomOut"
    /\ pdfDark
    /\ scale = 80
    /\ geom = "failed"
    /\ numPages = 6
    /\ currentPage = 4
    /\ Slot(1).width = 490
    /\ Slot(1).height = 634
    /\ Slot(1).filter = "none"
    /\ Slot(4).filter # "none"

\* C27: a failed favorite update is reverted, so once no favorite request is
\* in flight every book's local favorite flag equals the one in the store,
\* for any interleaving of toggles, acknowledgements and failures.
C27_FavoriteSettles ==
    favReqs = {} => \A b \in Books : favLocal[b] = favRemote[b]

\* C28: once the bookmark load and every insert and delete in flight have
\* completed without error, the local bookmark sequence holds exactly the
\* pages the store holds, for any interleaving of toggles with the load
\* response and any order in which the store runs the calls.
C28_BookmarksSettle ==
    (bmLoad.stage = "done" /\ bmInFlight = {}) => Range(bookmarks) = dbBookmarks

\* C29: a note of the local list stays in the list, unchanged unless a local
\* edit sets its fields, until deleteNote is called for it, in whatever order
\* the notes-load response and the insert acknowledgement arrive; a failed
\* insert leaves the list as it was.
C29_NotesStay ==
    [][/\ \A i \in 1..Len(notes) :
            \/ lastOp' = "deleteNote" /\ noteCalls'[1].id = notes[i].id
            \/ \E j \in 1..Len(notes') :
                  /\ notes'[j].id = notes[i].id
                  /\ lastOp' # "saveNote" => notes'[j] = notes[i]
       /\ lastOp' = "addNoteFailed" => notes' = notes]_vars

================================================================================
